---- MODULE Spec2Model ----
(***************************************************************************)
(* Model of sphinxcontrib/versioning/routines.py: gather_git_info,         *)
(* pre_build and build_all.                                                *)
(*                                                                         *)
(* Ref names, root_dir values and file names are sequences of one-letter   *)
(* strings, so that the character substitution of RE_INVALID_FILENAME and  *)
(* re.search can be computed.  Paths are sequences of components.          *)
(***************************************************************************)
EXTENDS Integers, Sequences, FiniteSets, TLC

VARIABLES
    pc,             \* position of the running function
    root_ref,       \* Config.from_context().root_ref
    registry,       \* versions.remotes
    existing,       \* pre_build: listing of the root build + assigned root_dirs
    listing,        \* pre_build: os.listdir(temp_dir) as returned
    snap,           \* list(versions.remotes) of the running for loop
    idx,            \* position of the running for loop in its list
    builds,         \* every call of build(), in call order
    cfgFailed,      \* records whose read_config raised HandledError
    loaded,         \* name -> configuration returned by read_config
    to_export,      \* pre_build: what the export loop has still to visit
    exported,       \* sha -> number of worktrees added at exported_root/sha
    listed,         \* gather_git_info: result of list_remote
    given,          \* gather_git_info: the override_refs argument
    remotes,        \* gather_git_info: remotes
    pending,        \* gather_git_info: override_refs after the override loop
    dates_paths,    \* gather_git_info: result of filter_and_date
    whitelist_branches,
    whitelist_tags,
    returned,       \* gather_git_info: returned list
    git_calls,      \* gather_git_info: calls of the git wrappers, with outcome
    tracked,        \* timestamp repair: the files of the exported commit
    history,        \* timestamp repair: the commits, newest first
    supports_follow_symlinks,   \* os.utime in os.supports_follow_symlinks
    files,          \* timestamp repair: files
    mtime,          \* timestamp repair: mtime
    stdout,         \* timestamp repair: what is left of whatchanged.stdout
    nread,          \* timestamp repair: lines taken from whatchanged.stdout
    utimes          \* every call of os.utime, in call order

vars == <<pc, root_ref, registry, existing, listing, snap, idx, builds,
          cfgFailed, loaded, to_export, exported, listed, given, remotes, pending, dates_paths,
          whitelist_branches, whitelist_tags, returned, git_calls,
          tracked, history, supports_follow_symlinks, files, mtime, stdout,
          nread, utimes>>

repairVars == <<tracked, history, supports_follow_symlinks, files, mtime,
                stdout, nread, utimes>>

exportVars == <<to_export, exported>>

buildVars == <<root_ref, registry, existing, listing, snap, idx, builds,
               cfgFailed, loaded, exportVars>>

gatherVars == <<listed, given, remotes, pending, dates_paths,
                whitelist_branches, whitelist_tags, returned, git_calls>>

(***************************************************************************)
(* Bounds                                                                  *)
(***************************************************************************)
MaxRemotes == 3

(***************************************************************************)
(* Generic helpers                                                         *)
(***************************************************************************)
Range(s) == {s[i] : i \in 1..Len(s)}

RemoveAt(s, i) == [j \in 1..(Len(s) - 1) |-> IF j < i THEN s[j] ELSE s[j + 1]]

\* list.index(x): position of the first element equal to x (0: not found)
IndexOf(s, x) ==
    IF \E i \in 1..Len(s) : s[i] = x
    THEN CHOOSE i \in 1..Len(s) : s[i] = x /\ \A j \in 1..(i - 1) : s[j] # x
    ELSE 0

\* versions.remotes.pop(versions.remotes.index(remote))
PopRemote(s, remote) == RemoveAt(s, IndexOf(s, remote))

NamesOf(s) == [i \in 1..Len(s) |-> s[i].name]

\* sequences over S without repetition, of length at most n
DistinctSeqs(S, n) ==
    UNION {{s \in [1..k -> S] : \A i, j \in 1..k : i # j => s[i] # s[j]} : k \in 0..n}

(***************************************************************************)
(* RE_INVALID_FILENAME = re.compile(r'[^0-9A-Za-z.-]')                     *)
(***************************************************************************)
ValidChars ==
    {"0", "1", "2", "3", "4", "5", "6", "7", "8", "9",
     "A", "B", "C", "D", "E", "F", "G", "H", "I", "J", "K", "L", "M",
     "N", "O", "P", "Q", "R", "S", "T", "U", "V", "W", "X", "Y", "Z",
     "a", "b", "c", "d", "e", "f", "g", "h", "i", "j", "k", "l", "m",
     "n", "o", "p", "q", "r", "s", "t", "u", "v", "w", "x", "y", "z",
     ".", "-"}

\* RE_INVALID_FILENAME.sub('_', name)
Unsanitized(name) == name

RE_INVALID_FILENAME_sub(name) ==
    [i \in 1..Len(name) |-> IF name[i] \in ValidChars THEN name[i] ELSE "_"]

\* while root_dir in existing: root_dir += '_'
RECURSIVE AvoidExisting(_, _)
AvoidExisting(root_dir, exist) ==
    IF root_dir \in Range(exist)
    THEN AvoidExisting(Append(root_dir, "_"), exist)
    ELSE root_dir

(***************************************************************************)
(* Paths                                                                   *)
(***************************************************************************)
\* os.path.dirname(os.path.join(exported_root, remote['sha'], remote['conf_rel_path']))
SourceOf(remote) ==
    <<"exported_root", remote.sha>> \o SubSeq(remote.conf_rel_path, 1, Len(remote.conf_rel_path) - 1)

Destination == [base |-> "destination", sub |-> <<>>]
TempDir == [base |-> "temp_dir", sub |-> <<>>]

\* os.path.join(destination, remote['root_dir'])
TargetOf(remote) == [base |-> "destination", sub |-> remote.root_dir]

(***************************************************************************)
(* The registry (class Versions is outside routines.py)                    *)
(***************************************************************************)
NoDir == <<>>
NoDocs == {}
NoDoc == ""

\* the refs a registry is drawn from: "a/" and "a_" sanitise to the same
\* directory name, and two refs point at the same commit
RefPool ==
    { [name |-> <<"a">>,      sha |-> "s1", conf_rel_path |-> <<"docs", "conf.py">>],
      [name |-> <<"a", "/">>, sha |-> "s1", conf_rel_path |-> <<"docs", "conf.py">>],
      [name |-> <<"a", "_">>, sha |-> "s2", conf_rel_path |-> <<"conf.py">>],
      [name |-> <<"b">>,      sha |-> "s3", conf_rel_path |-> <<"docs", "conf.py">>] }

RootRefs == {<<"a">>, <<"a", "/">>}

Shas == {r.sha : r \in RefPool}

\* what the root build may leave in temp_dir
Listings ==
    { <<>>,
      << <<"a">>, <<"a", "_">> >>,
      << <<"a", "_">>, <<"a", "_", "_">>, <<"b">> >> }

Configs ==
    { [master_doc |-> "index",    found_docs |-> {"index"}],
      [master_doc |-> "contents", found_docs |-> {"contents", "api"}] }

NewRemote(r) ==
    [name |-> r.name, sha |-> r.sha, conf_rel_path |-> r.conf_rel_path,
     root_dir |-> NoDir, found_docs |-> NoDocs, master_doc |-> NoDoc]

\* versions[root_ref]: position of the record named root_ref (0: no such record)
Lookup(versions, ref) ==
    IF \E i \in 1..Len(versions) : versions[i].name = ref
    THEN CHOOSE i \in 1..Len(versions) : versions[i].name = ref
    ELSE 0

\* one call of build(source, target, versions, name, is_root)
\* (remote is the record the arguments were taken from, ok the outcome)
BuildCall(remote, target, is_root, ok) ==
    [name |-> remote.name, source |-> SourceOf(remote), target |-> target,
     is_root |-> is_root, versions |-> NamesOf(registry), ok |-> ok,
     remote |-> remote]

(***************************************************************************)
(* pre_build                                                               *)
(***************************************************************************)
\* line 134: {r['sha'] for r in versions.remotes}, one item for each sha
ExportPerRecord(versions) == {<<versions[i].sha, versions[i].name>> : i \in 1..Len(versions)}

ExportItems(versions) == {<<versions[i].sha>> : i \in 1..Len(versions)}

\* lines 132-134: git worktree prune, then the set the export loop walks
pre_build_Prune ==
    /\ pc = "pre_extract"
    /\ IF registry = <<>>
       THEN /\ to_export' = ExportItems(registry)
            /\ pc' = "pre_export"
       ELSE \E ok \in BOOLEAN :
              IF ok
              THEN /\ to_export' = ExportItems(registry)
                   /\ pc' = "pre_export"
              ELSE /\ pc' = "pre_process_error"
                   /\ UNCHANGED to_export
    /\ UNCHANGED <<root_ref, registry, existing, listing, snap, idx, builds,
                   cfgFailed, loaded, exported>>
    /\ UNCHANGED gatherVars
    /\ UNCHANGED repairVars

\* lines 134-187: one iteration of the export loop, in the order the set
\* yields its items; a failing git command raises CalledProcessError
pre_build_Export ==
    /\ pc = "pre_export"
    /\ \E item \in to_export, ok \in BOOLEAN :
          IF ok
          THEN /\ exported' = [exported EXCEPT ![item[1]] = @ + 1]
               /\ to_export' = to_export \ {item}
               /\ UNCHANGED pc
          ELSE /\ pc' = "pre_process_error"
               /\ UNCHANGED exportVars
    /\ UNCHANGED <<root_ref, registry, existing, listing, snap, idx, builds,
                   cfgFailed, loaded>>
    /\ UNCHANGED gatherVars
    /\ UNCHANGED repairVars

\* the export loop has visited every item
pre_build_Exported ==
    /\ pc = "pre_export"
    /\ to_export = {}
    /\ pc' = "pre_root"
    /\ UNCHANGED <<root_ref, registry, existing, listing, snap, idx, builds,
                   cfgFailed, loaded>>
    /\ UNCHANGED exportVars
    /\ UNCHANGED gatherVars
    /\ UNCHANGED repairVars

\* lines 190-195: throwaway build of the root
pre_build_Root ==
    /\ pc = "pre_root"
    /\ IF Lookup(registry, root_ref) = 0
       THEN /\ pc' = "pre_lookup_error"
            /\ UNCHANGED <<existing, listing, builds, idx>>
       ELSE \E ok \in BOOLEAN, ls \in Listings :
              /\ builds' = Append(builds,
                     BuildCall(registry[Lookup(registry, root_ref)], TempDir, TRUE, ok))
              /\ IF ok
                 THEN /\ existing' = ls
                      /\ listing' = ls
                      /\ idx' = 1
                      /\ pc' = "pre_root_dir"
                 ELSE /\ pc' = "pre_handled_error"
                      /\ UNCHANGED <<existing, listing, idx>>
    /\ UNCHANGED <<root_ref, registry, snap, cfgFailed, loaded>>
    /\ UNCHANGED exportVars
    /\ UNCHANGED gatherVars
    /\ UNCHANGED repairVars

\* body of the loop of lines 198-204
AssignRootDir(remote, exist) ==
    AvoidExisting(RE_INVALID_FILENAME_sub(remote.name), exist)

\* line 204
ForgetRootDir(exist, root_dir) == exist

AppendExisting(exist, root_dir) == Append(exist, root_dir)

\* lines 198-204: one iteration of the root_dir loop
pre_build_RootDir ==
    /\ pc = "pre_root_dir"
    /\ idx <= Len(registry)
    /\ LET root_dir == AssignRootDir(registry[idx], existing)
       IN /\ registry' = [registry EXCEPT ![idx].root_dir = root_dir]
          /\ existing' = AppendExisting(existing, root_dir)
    /\ idx' = idx + 1
    /\ UNCHANGED <<pc, root_ref, listing, snap, builds, cfgFailed, loaded>>
    /\ UNCHANGED exportVars
    /\ UNCHANGED gatherVars
    /\ UNCHANGED repairVars

\* line 207: for remote in list(versions.remotes)
pre_build_StartProbe ==
    /\ pc = "pre_root_dir"
    /\ idx > Len(registry)
    /\ snap' = registry
    /\ idx' = 1
    /\ pc' = "pre_config"
    /\ UNCHANGED <<root_ref, registry, existing, listing, builds, cfgFailed, loaded>>
    /\ UNCHANGED exportVars
    /\ UNCHANGED gatherVars
    /\ UNCHANGED repairVars

\* lines 216-217
SetConfig(remote, config) ==
    [remote EXCEPT !.found_docs = config.found_docs, !.master_doc = config.master_doc]

\* lines 212-215
KeepUnreadable(versions, remote) == versions

DropUnreadable(versions, remote) == PopRemote(versions, remote)

\* lines 208-217: one iteration of the read_config loop
pre_build_ReadConfig ==
    /\ pc = "pre_config"
    /\ idx <= Len(snap)
    /\ LET remote == snap[idx]
       IN \/ \E config \in Configs :
               /\ registry' = [registry EXCEPT
                      ![IndexOf(registry, remote)] = SetConfig(remote, config)]
               /\ loaded' = (remote.name :> config) @@ loaded
               /\ UNCHANGED cfgFailed
          \/ /\ registry' = DropUnreadable(registry, remote)
             /\ cfgFailed' = cfgFailed \cup {remote}
             /\ UNCHANGED loaded
    /\ idx' = idx + 1
    /\ UNCHANGED <<pc, root_ref, existing, listing, snap, builds>>
    /\ UNCHANGED exportVars
    /\ UNCHANGED gatherVars
    /\ UNCHANGED repairVars

\* line 219: return exported_root; the caller goes on with build_all
pre_build_Return ==
    /\ pc = "pre_config"
    /\ idx > Len(snap)
    /\ pc' = "build_root"
    /\ UNCHANGED <<root_ref, registry, existing, listing, snap, idx, builds,
                   cfgFailed, loaded>>
    /\ UNCHANGED exportVars
    /\ UNCHANGED gatherVars
    /\ UNCHANGED repairVars

(***************************************************************************)
(* build_all                                                               *)
(***************************************************************************)
\* is_root argument of the call of line 244
RefIsRoot == FALSE

\* target argument of the call of line 236
RootTargetInRootDir(remote) == TargetOf(remote)

RootTarget(remote) == Destination

\* the list walked by the for loop of line 239
AllButFirst(versions) == SubSeq(versions, 2, Len(versions))

RefsToBuild(versions) == versions

\* lines 233-236: build the root into destination
build_all_Root ==
    /\ pc = "build_root"
    /\ IF Lookup(registry, root_ref) = 0
       THEN /\ pc' = "lookup_error"
            /\ UNCHANGED <<builds, snap, idx>>
       ELSE \E ok \in BOOLEAN :
              /\ builds' = Append(builds,
                     BuildCall(registry[Lookup(registry, root_ref)],
                               RootTarget(registry[Lookup(registry, root_ref)]), TRUE, ok))
              /\ IF ok
                 THEN /\ snap' = RefsToBuild(registry)
                      /\ idx' = 1
                      /\ pc' = "build_refs"
                 ELSE /\ pc' = "handled_error"
                      /\ UNCHANGED <<snap, idx>>
    /\ UNCHANGED <<root_ref, registry, existing, listing, cfgFailed, loaded>>
    /\ UNCHANGED exportVars
    /\ UNCHANGED gatherVars
    /\ UNCHANGED repairVars

\* lines 245-248: where the loop goes on after a failed build
ContinueAfterFailure(i) == [pc |-> "build_refs", idx |-> i + 1]

PropagateFailure(i) == [pc |-> "handled_error", idx |-> i]

AfterFailure(i) == [pc |-> "build_root", idx |-> i]

\* line 247
KeepFailed(versions, remote) == versions

DropFirst(versions, remote) == Tail(versions)

DropFailed(versions, remote) == PopRemote(versions, remote)

\* lines 240-248: one iteration of the for loop
build_all_Ref ==
    /\ pc = "build_refs"
    /\ idx <= Len(snap)
    /\ LET remote == snap[idx]
       IN \E ok \in BOOLEAN :
            /\ builds' = Append(builds, BuildCall(remote, TargetOf(remote), RefIsRoot, ok))
            /\ IF ok
               THEN /\ idx' = idx + 1
                    /\ UNCHANGED <<pc, registry>>
               ELSE /\ registry' = DropFailed(registry, remote)
                    /\ pc' = AfterFailure(idx).pc
                    /\ idx' = AfterFailure(idx).idx
    /\ UNCHANGED <<root_ref, existing, listing, snap, cfgFailed, loaded>>
    /\ UNCHANGED exportVars
    /\ UNCHANGED gatherVars
    /\ UNCHANGED repairVars

\* lines 249-250: the for loop ended without break
build_all_Return ==
    /\ pc = "build_refs"
    /\ idx > Len(snap)
    /\ pc' = "done"
    /\ UNCHANGED <<root_ref, registry, existing, listing, snap, idx, builds,
                   cfgFailed, loaded>>
    /\ UNCHANGED exportVars
    /\ UNCHANGED gatherVars
    /\ UNCHANGED repairVars

(***************************************************************************)
(* Specification of pre_build followed by build_all                        *)
(***************************************************************************)
RepairIdle ==
    /\ tracked = {}
    /\ history = <<>>
    /\ supports_follow_symlinks = TRUE
    /\ files = <<>>
    /\ mtime = 0
    /\ stdout = <<>>
    /\ nread = 0
    /\ utimes = <<>>

GatherIdle ==
    /\ listed = <<>>
    /\ given = <<>>
    /\ remotes = <<>>
    /\ pending = <<>>
    /\ dates_paths = <<>>
    /\ whitelist_branches = <<>>
    /\ whitelist_tags = <<>>
    /\ returned = <<>>
    /\ git_calls = <<>>

Init ==
    /\ pc = "pre_extract"
    /\ root_ref \in RootRefs
    /\ \E refs \in DistinctSeqs(RefPool, MaxRemotes) :
          registry = [i \in 1..Len(refs) |-> NewRemote(refs[i])]
    /\ existing = <<>>
    /\ listing = <<>>
    /\ snap = <<>>
    /\ idx = 1
    /\ builds = <<>>
    /\ cfgFailed = {}
    /\ loaded = <<>>
    /\ to_export = {}
    /\ exported = [sha \in Shas |-> 0]
    /\ GatherIdle
    /\ RepairIdle

Next ==
    \/ pre_build_Prune
    \/ pre_build_Export
    \/ pre_build_Exported
    \/ pre_build_Root
    \/ pre_build_RootDir
    \/ pre_build_StartProbe
    \/ pre_build_ReadConfig
    \/ pre_build_Return
    \/ build_all_Root
    \/ build_all_Ref
    \/ build_all_Return

Spec == Init /\ [][Next]_vars

\* the program is one thread that runs on whenever it has a step to take
FairSpec == Spec /\ WF_vars(Next)

(***************************************************************************)
(* gather_git_info                                                         *)
(***************************************************************************)
MaxListed == 2
MaxOverrides == 2

SeqsUpTo(S, n) == UNION {[1..k -> S] : k \in 0..n}

\* refs are (sha, name, kind); a branch and a tag may carry the same name,
\* and the remote lists a ref once
ListedPool ==
    { <<"s2", <<"v", "1">>, "tags">>,
      <<"s1", <<"v", "1">>, "heads">>,
      <<"s2", <<"v", "2">>, "tags">>,
      <<"s3", <<"r", "1">>, "heads">> }

OverridePool ==
    { <<"s3", <<"v", "1">>, "heads">>,
      <<"s1", <<"v", "2">>, "tags">>,
      <<"s2", <<"x">>, "heads">> }

\* branches main, dev, release-1 and tags v1.0, v2.0
ExampleListed ==
    << <<"s1", <<"m", "a", "i", "n">>, "heads">>,
       <<"s2", <<"d", "e", "v">>, "heads">>,
       <<"s3", <<"r", "e", "l", "e", "a", "s", "e", "-", "1">>, "heads">>,
       <<"s1", <<"v", "1", ".", "0">>, "tags">>,
       <<"s3", <<"v", "2", ".", "0">>, "tags">> >>

\* a pattern is a literal, anchored at the start (^literal) or not
ExampleBranchPattern ==
    [anchored |-> TRUE, lit |-> <<"r", "e", "l", "e", "a", "s", "e", "-">>]

ExampleTagPattern == [anchored |-> TRUE, lit |-> <<"v", "2">>]

BranchWhitelists ==
    { <<>>,
      << [anchored |-> TRUE, lit |-> <<"r">>] >>,
      << [anchored |-> FALSE, lit |-> <<"2">>], ExampleBranchPattern >>,
      << ExampleBranchPattern >> }

TagWhitelists ==
    { <<>>,
      << [anchored |-> FALSE, lit |-> <<"1">>] >>,
      << ExampleTagPattern >> }

\* what filter_and_date reports for a commit that has docs: [date, conf_rel_path]
DatePathOf(sha) ==
    CASE sha = "s1" -> <<100, <<"docs", "conf.py">> >>
      [] sha = "s2" -> <<200, <<"conf.py">> >>
      [] OTHER      -> <<300, <<"docs", "conf.py">> >>

ShasOf(refs) == {refs[i][1] : i \in 1..Len(refs)}

\* the results filter_and_date may return for the shas it is given
DateLookups(refs) == {[sha \in D |-> DatePathOf(sha)] : D \in SUBSET ShasOf(refs)}

\* lines 66-71: position of the first pending override named r_name (0: none)
FirstNamed(override_refs, r_name) ==
    IF \E oi \in 1..Len(override_refs) : override_refs[oi][2] = r_name
    THEN CHOOSE oi \in 1..Len(override_refs) :
            /\ override_refs[oi][2] = r_name
            /\ \A k \in 1..(oi - 1) : override_refs[k][2] # r_name
    ELSE 0

\* lines 65-71: the loop over remotes from position ri on
RECURSIVE OverrideLoop(_, _, _)
OverrideLoop(rem, override_refs, ri) ==
    IF ri > Len(rem)
    THEN [remotes |-> rem, override_refs |-> override_refs]
    ELSE LET oi == FirstNamed(override_refs, rem[ri][2])
         IN IF oi = 0
            THEN OverrideLoop(rem, override_refs, ri + 1)
            ELSE OverrideLoop([rem EXCEPT ![ri] = override_refs[oi]],
                              RemoveAt(override_refs, oi), ri + 1)

\* line 93
UnfilteredRemotes(rem, dp) ==
    [k \in 1..Len(rem) |->
        <<rem[k][1], rem[k][2], rem[k][3]>>
            \o (IF rem[k][1] \in DOMAIN dp THEN dp[rem[k][1]] ELSE <<0, <<>> >>)]

FilteredRemotes(rem, dp) ==
    LET with_docs == SelectSeq(rem, LAMBDA i : i[1] \in DOMAIN dp)
    IN [k \in 1..Len(with_docs) |->
            <<with_docs[k][1], with_docs[k][2], with_docs[k][3]>> \o dp[with_docs[k][1]]]

IsAt(lit, name, k) ==
    /\ k + Len(lit) - 1 <= Len(name)
    /\ \A j \in 1..Len(lit) : name[k + j - 1] = lit[j]

\* re.search(p, name)
re_search(p, name) ==
    IF p.anchored
    THEN IsAt(p.lit, name, 1)
    ELSE \E k \in 1..(Len(name) + 1) : IsAt(p.lit, name, k)

\* any(re.search(p, remote[1]) for p in whitelist)
AnyMatch(whitelist, name) == \E k \in 1..Len(whitelist) : re_search(whitelist[k], name)

\* lines 101-103: the branch is skipped
SkipBranchWhenEmpty(remote, whitelist) ==
    remote[3] = "heads" /\ ~AnyMatch(whitelist, remote[2])

SkipBranch(remote, whitelist) ==
    remote[3] = "heads" /\ whitelist # <<>> /\ ~AnyMatch(whitelist, remote[2])

\* lines 104-106: the tag is skipped
SkipTag(remote, whitelist) ==
    remote[3] = "tags" /\ whitelist # <<>> /\ ~AnyMatch(whitelist, remote[2])

\* lines 95-110
ApplyWhitelist(filtered_remotes, wb, wt) ==
    IF wb = <<>> /\ wt = <<>>
    THEN filtered_remotes
    ELSE SelectSeq(filtered_remotes, LAMBDA remote : ~SkipBranch(remote, wb) /\ ~SkipTag(remote, wt))

\* lines 56-61: list_remote
gather_ListRemote ==
    /\ pc = "g_list"
    /\ \/ \E l \in DistinctSeqs(ListedPool, MaxListed) \cup {ExampleListed} :
            /\ listed' = l
            /\ remotes' = l
            /\ git_calls' = Append(git_calls, <<"list_remote", "ok">>)
            /\ pc' = "g_override"
       \/ /\ pc' = "g_handled_error"
          /\ git_calls' = Append(git_calls, <<"list_remote", "GitError">>)
          /\ UNCHANGED <<listed, remotes>>
    /\ UNCHANGED <<given, pending, dates_paths, whitelist_branches, whitelist_tags, returned>>
    /\ UNCHANGED buildVars
    /\ UNCHANGED repairVars

\* lines 64-72: apply the overrides
gather_ApplyOverrides ==
    /\ pc = "g_override"
    /\ \E override_refs \in SeqsUpTo(OverridePool, MaxOverrides) :
          LET done == OverrideLoop(remotes, override_refs, 1)
          IN /\ given' = override_refs
             /\ pending' = done.override_refs
             /\ remotes' = done.remotes \o done.override_refs
    /\ pc' = "g_filter"
    /\ UNCHANGED <<listed, dates_paths, whitelist_branches, whitelist_tags, returned, git_calls>>
    /\ UNCHANGED buildVars
    /\ UNCHANGED repairVars

\* lines 80-82: a GitError of the first filter_and_date leads to fetch_commits
RetryWithoutFetch == "g_filter_again"

OnFirstGitError == "g_fetch"

\* lines 78-80, 89-92: the first filter_and_date
gather_FilterAndDate ==
    /\ pc = "g_filter"
    /\ \/ \E dp \in DateLookups(remotes) :
            /\ dates_paths' = dp
            /\ git_calls' = Append(git_calls, <<"filter_and_date", "ok">>)
            /\ pc' = "g_whitelist"
       \/ /\ pc' = OnFirstGitError
          /\ git_calls' = Append(git_calls, <<"filter_and_date", "GitError">>)
          /\ UNCHANGED dates_paths
       \/ /\ pc' = "g_handled_error"
          /\ git_calls' = Append(git_calls, <<"filter_and_date", "CalledProcessError">>)
          /\ UNCHANGED dates_paths
    /\ UNCHANGED <<listed, given, remotes, pending, whitelist_branches, whitelist_tags, returned>>
    /\ UNCHANGED buildVars
    /\ UNCHANGED repairVars

\* lines 81-82: fetch_commits; its GitError is caught by no handler
gather_FetchCommits ==
    /\ pc = "g_fetch"
    /\ \/ /\ pc' = "g_filter_again"
          /\ git_calls' = Append(git_calls, <<"fetch_commits", "ok">>)
       \/ /\ pc' = "g_git_error"
          /\ git_calls' = Append(git_calls, <<"fetch_commits", "GitError">>)
       \/ /\ pc' = "g_handled_error"
          /\ git_calls' = Append(git_calls, <<"fetch_commits", "CalledProcessError">>)
    /\ UNCHANGED <<listed, given, remotes, pending, dates_paths,
                   whitelist_branches, whitelist_tags, returned>>
    /\ UNCHANGED buildVars
    /\ UNCHANGED repairVars

\* lines 83-92: the second filter_and_date
gather_FilterAndDateAgain ==
    /\ pc = "g_filter_again"
    /\ \/ \E dp \in DateLookups(remotes) :
            /\ dates_paths' = dp
            /\ git_calls' = Append(git_calls, <<"filter_and_date", "ok">>)
            /\ pc' = "g_whitelist"
       \/ \E err \in {"GitError", "CalledProcessError"} :
            /\ pc' = "g_handled_error"
            /\ git_calls' = Append(git_calls, <<"filter_and_date", err>>)
            /\ UNCHANGED dates_paths
    /\ UNCHANGED <<listed, given, remotes, pending, whitelist_branches, whitelist_tags, returned>>
    /\ UNCHANGED buildVars
    /\ UNCHANGED repairVars

\* lines 93-110: drop the refs without docs, apply the whitelists, return
gather_Return ==
    /\ pc = "g_whitelist"
    /\ \E wb \in BranchWhitelists, wt \in TagWhitelists :
          /\ whitelist_branches' = wb
          /\ whitelist_tags' = wt
          /\ returned' = ApplyWhitelist(FilteredRemotes(remotes, dates_paths), wb, wt)
    /\ pc' = "g_done"
    /\ UNCHANGED <<listed, given, remotes, pending, dates_paths, git_calls>>
    /\ UNCHANGED buildVars
    /\ UNCHANGED repairVars

BuildIdle ==
    /\ root_ref = <<>>
    /\ registry = <<>>
    /\ existing = <<>>
    /\ listing = <<>>
    /\ snap = <<>>
    /\ idx = 1
    /\ builds = <<>>
    /\ cfgFailed = {}
    /\ loaded = <<>>
    /\ to_export = {}
    /\ exported = [sha \in Shas |-> 0]

InitGather ==
    /\ pc = "g_list"
    /\ GatherIdle
    /\ BuildIdle
    /\ RepairIdle

NextGather ==
    \/ gather_ListRemote
    \/ gather_ApplyOverrides
    \/ gather_FilterAndDate
    \/ gather_FetchCommits
    \/ gather_FilterAndDateAgain
    \/ gather_Return

SpecGather == InitGather /\ [][NextGather]_vars

(***************************************************************************)
(* pre_build: timestamp repair of one exported commit (lines 143-187)      *)
(***************************************************************************)
MaxCommits == 3

NUL == "NUL"
TAB == "TAB"
NL == "NL"

RECURSIVE Concat(_)
Concat(ss) == IF ss = <<>> THEN <<>> ELSE Head(ss) \o Concat(Tail(ss))

\* bytes.split(sep)
RECURSIVE split(_, _)
split(bytes, sep) ==
    IF \E k \in 1..Len(bytes) : bytes[k] = sep
    THEN LET k == CHOOSE k \in 1..Len(bytes) :
                      /\ bytes[k] = sep
                      /\ \A j \in 1..(k - 1) : bytes[j] # sep
         IN <<SubSeq(bytes, 1, k - 1)>> \o split(SubSeq(bytes, k + 1, Len(bytes)), sep)
    ELSE <<bytes>>

\* bytes.split(sep, 1)
split_once(bytes, sep) ==
    IF \E k \in 1..Len(bytes) : bytes[k] = sep
    THEN LET k == CHOOSE k \in 1..Len(bytes) :
                      /\ bytes[k] = sep
                      /\ \A j \in 1..(k - 1) : bytes[j] # sep
         IN <<SubSeq(bytes, 1, k - 1), SubSeq(bytes, k + 1, Len(bytes))>>
    ELSE <<bytes>>

Whitespace == {" ", TAB, NL}

\* bytes.strip()
RECURSIVE strip(_)
strip(bytes) ==
    IF bytes = <<>> THEN bytes
    ELSE IF Head(bytes) \in Whitespace THEN strip(Tail(bytes))
    ELSE IF bytes[Len(bytes)] \in Whitespace THEN strip(SubSeq(bytes, 1, Len(bytes) - 1))
    ELSE bytes

DigitValue ==
    [d \in {"0", "1", "2", "3", "4", "5", "6", "7", "8", "9"} |->
        CASE d = "0" -> 0 [] d = "1" -> 1 [] d = "2" -> 2 [] d = "3" -> 3
          [] d = "4" -> 4 [] d = "5" -> 5 [] d = "6" -> 6 [] d = "7" -> 7
          [] d = "8" -> 8 [] d = "9" -> 9]

\* int(text, base)
RECURSIVE int(_, _)
int(text, base) ==
    IF text = <<>> THEN 0
    ELSE int(SubSeq(text, 1, Len(text) - 1), base) * base + DigitValue[text[Len(text)]]

Digit == <<"0", "1", "2", "3", "4", "5", "6", "7", "8", "9">>

\* %ct: a commit's time in decimal
RECURSIVE Decimal(_)
Decimal(n) == IF n < 10 THEN <<Digit[n + 1]>> ELSE Decimal(n \div 10) \o <<Digit[(n % 10) + 1]>>

\* symlink_mode = 0o120000
symlink_mode == 40960

RegularMode == <<"1", "0", "0", "6", "4", "4">>
SymlinkMode == <<"1", "2", "0", "0", "0", "0">>

Modify(name, mode) ==
    [old_mode |-> mode, new_mode |-> mode, operation |-> <<"M">>, filenames |-> <<name>>]

Rename(old_filename, new_filename) ==
    [old_mode |-> RegularMode, new_mode |-> RegularMode, operation |-> <<"R">>,
     filenames |-> <<old_filename, new_filename>>]

NewPath(change) == change.filenames[Len(change.filenames)]

\* the files of the commit, and what its commits may have changed
TrackedPool == <<<<"a">>, <<"b">>, <<"l">>>>

ChangePool ==
    << Modify(<<"a">>, RegularMode), Modify(<<"b">>, RegularMode),
       Rename(<<"c">>, <<"b">>), Modify(<<"l">>, SymlinkMode) >>

\* the changes of one commit, in the order of ChangePool: one or two
\* changes with different new paths
CommitChanges ==
    {SelectSeq(ChangePool, LAMBDA c : c \in S) :
        S \in {T \in SUBSET Range(ChangePool) :
                  /\ Cardinality(T) \in {1, 2}
                  /\ \A x, y \in T : x # y => NewPath(x) # NewPath(y)}}

\* commit i of a history is newer than commit i + 1
CommitTime(i) == 100 * (MaxCommits + 1 - i)

Histories ==
    UNION {{[i \in 1..n |-> [ct |-> CommitTime(i), changes |-> cs[i]]] :
               cs \in [1..n -> CommitChanges]} : n \in 0..MaxCommits}

\* the history of the specification's example, with fileA = a and fileB = b
ExampleHistory ==
    << [ct |-> 300, changes |-> <<Modify(<<"a">>, RegularMode)>>],
       [ct |-> 200, changes |-> <<Modify(<<"a">>, RegularMode), Modify(<<"b">>, RegularMode)>>],
       [ct |-> 100, changes |-> <<Modify(<<"b">>, RegularMode)>>] >>

\* output of git ls-files -z: every name is followed by a NUL
ls_files(names) ==
    Concat([i \in 1..Len(names) |-> names[i] \o <<NUL>>])

JoinTab(names) ==
    IF Len(names) = 1 THEN names[1] ELSE names[1] \o <<TAB>> \o names[2]

\* one line of raw diff output
ChangeLine(c) ==
    <<":">> \o c.old_mode \o <<" ">> \o c.new_mode \o <<" ">> \o <<"h">> \o <<" ">>
        \o <<"h">> \o <<" ">> \o c.operation \o <<TAB>> \o JoinTab(c.filenames) \o <<NL>>

\* output of git whatchanged --pretty=format:%ct, as lines: the commit's
\* time, its changes, and an empty line between two commits
whatchanged(h) ==
    Concat([i \in 1..Len(h) |->
               <<Decimal(h[i].ct) \o <<NL>>>>
               \o [k \in 1..Len(h[i].changes) |-> ChangeLine(h[i].changes[k])]
               \o (IF i < Len(h) THEN <<<<NL>>>> ELSE <<>>)])

\* lines 161-170: the fields of a change record
ParseChange(line) ==
    LET rest == Tail(line)
        parts == split_once(rest, TAB)
        props == split(parts[1], " ")
        filenames == split(parts[2], TAB)
    IN [new_mode |-> int(props[2], 8),
        new_filename |-> filenames[Len(filenames)]]

\* line 173
KeepPending(pending_files, new_filename) == pending_files

RemovePending(pending_files, new_filename) ==
    RemoveAt(pending_files, IndexOf(pending_files, new_filename))

\* lines 149-151
repair_ListFiles ==
    /\ pc = "r_ls"
    /\ files' = split(ls_files(SelectSeq(TrackedPool, LAMBDA f : f \in tracked)), NUL)
    /\ stdout' = whatchanged(history)
    /\ mtime' = 0
    /\ nread' = 0
    /\ pc' = "r_walk"
    /\ UNCHANGED <<tracked, history, supports_follow_symlinks, utimes>>
    /\ UNCHANGED buildVars
    /\ UNCHANGED gatherVars

\* lines 152-183: one line of whatchanged.stdout
repair_Line ==
    /\ pc = "r_walk"
    /\ stdout # <<>>
    /\ stdout' = Tail(stdout)
    /\ nread' = nread + 1
    /\ IF files = <<>>
       THEN /\ pc' = "r_done"
            /\ UNCHANGED <<files, mtime, utimes>>
       ELSE LET line == strip(Head(stdout))
            IN /\ UNCHANGED pc
               /\ IF line = <<>>
                  THEN UNCHANGED <<files, mtime, utimes>>
                  ELSE IF Head(line) = ":"
                  THEN LET change == ParseChange(line)
                       IN /\ UNCHANGED mtime
                          /\ IF change.new_filename \in Range(files)
                             THEN /\ files' = RemovePending(files, change.new_filename)
                                  /\ IF change.new_mode = symlink_mode
                                     THEN IF supports_follow_symlinks
                                          THEN utimes' = Append(utimes,
                                                   [path |-> change.new_filename,
                                                    mtime |-> mtime,
                                                    follow_symlinks |-> FALSE])
                                          ELSE UNCHANGED utimes
                                     ELSE utimes' = Append(utimes,
                                              [path |-> change.new_filename,
                                               mtime |-> mtime,
                                               follow_symlinks |-> TRUE])
                             ELSE UNCHANGED <<files, utimes>>
                  ELSE /\ mtime' = int(line, 10)
                       /\ UNCHANGED <<files, utimes>>
    /\ UNCHANGED <<tracked, history, supports_follow_symlinks>>
    /\ UNCHANGED buildVars
    /\ UNCHANGED gatherVars

\* lines 184-187: whatchanged.stdout is at its end
repair_Exhausted ==
    /\ pc = "r_walk"
    /\ stdout = <<>>
    /\ pc' = "r_done"
    /\ UNCHANGED repairVars
    /\ UNCHANGED buildVars
    /\ UNCHANGED gatherVars

InitRepair ==
    /\ pc = "r_ls"
    /\ tracked \in SUBSET Range(TrackedPool)
    /\ history \in Histories \cup {ExampleHistory}
    /\ supports_follow_symlinks \in BOOLEAN
    /\ files = <<>>
    /\ mtime = 0
    /\ stdout = <<>>
    /\ nread = 0
    /\ utimes = <<>>
    /\ BuildIdle
    /\ GatherIdle

NextRepair ==
    \/ repair_ListFiles
    \/ repair_Line
    \/ repair_Exhausted

SpecRepair == InitRepair /\ [][NextRepair]_vars

(***************************************************************************)
(* Properties of the timestamp repair                                      *)
(***************************************************************************)
\* commit i has a change record whose new path is f
Touches(i, f) == \E k \in 1..Len(history[i].changes) : NewPath(history[i].changes[k]) = f

Touched(f) == \E i \in 1..Len(history) : Touches(i, f)

\* the most recent commit that touches f
FirstTouch(f) ==
    CHOOSE i \in 1..Len(history) : Touches(i, f) /\ \A j \in 1..(i - 1) : ~Touches(j, f)

\* the change record of f in its most recent commit is that of a symlink
SymlinkAtFirstTouch(f) ==
    \E k \in 1..Len(history[FirstTouch(f)].changes) :
        /\ NewPath(history[FirstTouch(f)].changes[k]) = f
        /\ history[FirstTouch(f)].changes[k].new_mode = SymlinkMode

StampsOf(f) == {u \in 1..Len(utimes) : utimes[u].path = f}

\* no file is stamped twice, and a stamp is the time of the most recent
\* commit that touches the file
StampedOnceWithFirstTime ==
    \A u \in 1..Len(utimes) :
        /\ utimes[u].path \in tracked
        /\ StampsOf(utimes[u].path) = {u}
        /\ Touched(utimes[u].path)
        /\ utimes[u].mtime = history[FirstTouch(utimes[u].path)].ct

\* C13 as stated: every tracked file that is the new path of a change
\* record is stamped exactly once, with the time of the most recent commit
\* that touches it.
C13_EveryTouchedFileStamped ==
    /\ StampedOnceWithFirstTime
    /\ pc = "r_done" =>
          \A f \in tracked : Touched(f) => Cardinality(StampsOf(f)) = 1

\* C13: every tracked file that is the new path of a change record is
\* stamped exactly once, with the time of the most recent commit that
\* touches it, unless that commit records it as a symlink and os.utime
\* cannot act on symlinks: then it is never stamped.
C13_TouchedFilesStampedOnce ==
    /\ StampedOnceWithFirstTime
    /\ pc = "r_done" =>
          \A f \in tracked :
              Touched(f) =>
                  IF SymlinkAtFirstTouch(f) /\ ~supports_follow_symlinks
                  THEN StampsOf(f) = {}
                  ELSE Cardinality(StampsOf(f)) = 1

\* the example history was walked to its end: a got 300 and b got 200, and
\* nothing else was stamped
C13_Witness ==
    /\ pc = "r_done"
    /\ history = ExampleHistory
    /\ \E u \in 1..Len(utimes) : utimes[u].path = <<"a">> /\ utimes[u].mtime = 300
    /\ \E u \in 1..Len(utimes) : utimes[u].path = <<"b">> /\ utimes[u].mtime = 200
    /\ Len(utimes) = 2

\* number of output lines before those of commit i
RECURSIVE LinesBefore(_)
LinesBefore(i) ==
    IF i = 1 THEN 0 ELSE LinesBefore(i - 1) + 1 + Len(history[i - 1].changes) + 1

\* the output line with the most recent change record of f
LineOfFirstTouch(f) ==
    LET i == FirstTouch(f)
        k == CHOOSE k \in 1..Len(history[i].changes) : NewPath(history[i].changes[k]) = f
    IN LinesBefore(i) + 1 + k

\* the line after which no tracked file is left to stamp
LastNeededLine ==
    IF tracked = {} THEN 0
    ELSE CHOOSE n \in {LineOfFirstTouch(f) : f \in tracked} :
             \A f \in tracked : LineOfFirstTouch(f) <= n

\* C19: once every tracked file has met its most recent change record, the
\* walk takes no further line but the one on which it notices.
C19_StopsWhenAllStamped ==
    (\A f \in tracked : Touched(f)) => nread <= LastNeededLine + 1

(***************************************************************************)
(* Properties of gather_git_info                                           *)
(***************************************************************************)
Listed(name) == \E li \in 1..Len(listed) : listed[li][2] = name

\* C8: at every place of the listing whose name some override carries,
\* the merged list holds an override of that name instead of the listed
\* ref, so that no listed ref with an overridden name is left; the other
\* places keep the listed ref; the overrides that replaced nothing follow
\* the listed refs, in override order.
C8_OverridesReplaceListed ==
    pc = "g_filter" =>
        LET appended == SubSeq(remotes, Len(listed) + 1, Len(remotes))
        IN /\ \A li \in 1..Len(listed) :
                 IF \E oi \in 1..Len(given) : given[oi][2] = listed[li][2]
                 THEN \E oi \in 1..Len(given) :
                         given[oi][2] = listed[li][2] /\ remotes[li] = given[oi]
                 ELSE remotes[li] = listed[li]
           /\ \A k \in 1..Len(appended) : appended[k] \in Range(given)
           /\ SelectSeq(appended, LAMBDA o : ~Listed(o[2]))
                 = SelectSeq(given, LAMBDA o : ~Listed(o[2]))

\* a ref with docs is kept under the whitelists
Kept(remote) ==
    \/ /\ remote[3] = "heads"
       /\ whitelist_branches = <<>> \/ AnyMatch(whitelist_branches, remote[2])
    \/ /\ remote[3] = "tags"
       /\ whitelist_tags = <<>> \/ AnyMatch(whitelist_tags, remote[2])

\* C9: the returned list is the list of refs with docs, in its order,
\* restricted to the branches that the branch whitelist is empty or matches
\* and the tags that the tag whitelist is empty or matches; the example of
\* the branches main, dev, release-1 and the tags v1.0, v2.0 under
\* ^release- and ^v2 returns release-1 and v2.0.
C9_WhitelistFilter ==
    pc = "g_done" =>
        /\ returned = SelectSeq(FilteredRemotes(remotes, dates_paths), Kept)
        /\ ( /\ remotes = ExampleListed
             /\ DOMAIN dates_paths = {"s1", "s2", "s3"}
             /\ whitelist_branches = <<ExampleBranchPattern>>
             /\ whitelist_tags = <<ExampleTagPattern>> ) =>
                 [i \in 1..Len(returned) |-> returned[i][2]]
                     = << <<"r", "e", "l", "e", "a", "s", "e", "-", "1">>,
                          <<"v", "2", ".", "0">> >>

\* the example of the spec was returned
C9_Witness ==
    /\ pc = "g_done"
    /\ remotes = ExampleListed
    /\ DOMAIN dates_paths = {"s1", "s2", "s3"}
    /\ whitelist_branches = <<ExampleBranchPattern>>
    /\ whitelist_tags = <<ExampleTagPattern>>
    /\ Len(returned) = 2

\* C10: every returned record is a ref of the merged list whose sha is a
\* key of the result of filter_and_date, and carries the date and the
\* conf_rel_path found for that sha.
C10_OnlyDatedShas ==
    pc = "g_done" =>
        \A i \in 1..Len(returned) :
            /\ \E k \in 1..Len(remotes) :
                  remotes[k] = <<returned[i][1], returned[i][2], returned[i][3]>>
            /\ returned[i][1] \in DOMAIN dates_paths
            /\ returned[i][4] = dates_paths[returned[i][1]][1]
            /\ returned[i][5] = dates_paths[returned[i][1]][2]

\* under a whitelist, an appended override with docs was returned and an
\* appended override without docs was not
C10_Witness ==
    /\ pc = "g_done"
    /\ whitelist_branches # <<>>
    /\ Len(pending) = 2
    /\ pending[1][1] \notin DOMAIN dates_paths
    /\ \E i \in 1..Len(returned) :
          <<returned[i][1], returned[i][2], returned[i][3]>> = pending[2]

CallsOf(f) == {i \in 1..Len(git_calls) : git_calls[i][1] = f}

\* C11: filter_and_date is called at most twice and fetch_commits at most
\* once; fetch_commits directly follows a first filter_and_date that failed
\* with a git error, the second filter_and_date directly follows a
\* fetch_commits that succeeded, and a second filter_and_date that fails is
\* the last call of a run that ends with the handled error.
C11_FetchOnceRetryOnce ==
    /\ Cardinality(CallsOf("filter_and_date")) <= 2
    /\ Cardinality(CallsOf("fetch_commits")) <= 1
    /\ \A i \in CallsOf("fetch_commits") :
          /\ i > 1
          /\ git_calls[i - 1] = <<"filter_and_date", "GitError">>
          /\ CallsOf("filter_and_date") \cap (1..(i - 1)) = {i - 1}
    /\ \A i \in CallsOf("filter_and_date") :
          (\E j \in CallsOf("filter_and_date") : j < i) =>
              /\ git_calls[i - 1] = <<"fetch_commits", "ok">>
              /\ git_calls[i][2] # "ok" => (i = Len(git_calls) /\ pc = "g_handled_error")

\* both calls of filter_and_date failed, with one fetch_commits in between
C11_Witness ==
    /\ pc = "g_handled_error"
    /\ Len(git_calls) = 4
    /\ git_calls[2] = <<"filter_and_date", "GitError">>
    /\ git_calls[3] = <<"fetch_commits", "ok">>
    /\ git_calls[4] = <<"filter_and_date", "GitError">>

\* C12: a git error of list_remote, filter_and_date or fetch_commits never
\* leaves gather_git_info as the git error itself, only as the handled error.
C12_NoRawGitError ==
    (Len(git_calls) > 0 /\ git_calls[Len(git_calls)][2] = "GitError") =>
        pc \in {"g_handled_error", "g_fetch"}

DistinctNames(refs) ==
    \A i, j \in 1..Len(refs) : i # j => refs[i][2] # refs[j][2]

\* C16: when the names of the listing are pairwise distinct, the returned
\* list holds no two records of the same name, whatever the overrides are.
C16_ReturnedNamesDistinct ==
    (pc = "g_done" /\ DistinctNames(listed)) => DistinctNames(returned)

(***************************************************************************)
(* Properties of build_all                                                 *)
(***************************************************************************)
InBuildAll(b) == b.target.base = "destination"

Without(names, n) == SelectSeq(names, LAMBDA x : x # n)

FailedRef(b) == InBuildAll(b) /\ ~b.is_root /\ ~b.ok

\* the last Len(registry) + 1 calls are one sweep over the present registry
\* in which every build succeeded
CleanFinalSweep ==
    LET n == Len(registry)
        L == Len(builds)
    IN /\ L >= n + 1
       /\ builds[L - n].is_root
       /\ builds[L - n].ok
       /\ builds[L - n].name = root_ref
       /\ builds[L - n].target = Destination
       /\ builds[L - n].versions = NamesOf(registry)
       /\ \A k \in 1..n :
            /\ ~builds[L - n + k].is_root
            /\ builds[L - n + k].ok
            /\ builds[L - n + k].name = registry[k].name
            /\ builds[L - n + k].versions = NamesOf(registry)

\* C1: when the build of a non-root record fails in the for loop, the record
\* is removed from the registry, nothing more of that sweep is built, the
\* next build call is the root into destination with is_root set, and the
\* calls after it walk the remaining records from the first one on.
C1_RestartFromRoot ==
    \A i \in 1..Len(builds) :
        (FailedRef(builds[i]) /\ builds[i].name # root_ref) =>
            LET after == Without(builds[i].versions, builds[i].name)
                L == Len(builds)
            IN /\ (i = L => pc = "build_root" /\ NamesOf(registry) = after)
               /\ (i < L => /\ builds[i + 1].is_root
                            /\ builds[i + 1].name = root_ref
                            /\ builds[i + 1].target = Destination
                            /\ builds[i + 1].versions = after)
               /\ \A k \in 1..Len(after) :
                    (i + 1 + k <= L /\ \A j \in 1..(k - 1) : builds[i + 1 + j].ok) =>
                        /\ builds[i + 1 + k].name = after[k]
                        /\ ~builds[i + 1 + k].is_root
                        /\ builds[i + 1 + k].versions = after

\* a non-root record that was not the first of its sweep failed, and the
\* next sweep has built the root and the first record again
C1_Witness ==
    \E i \in 2..Len(builds) :
        /\ FailedRef(builds[i])
        /\ builds[i].name # root_ref
        /\ ~builds[i - 1].is_root
        /\ i + 2 <= Len(builds)
        /\ builds[i + 2].name = builds[i - 1].versions[1]

\* C2: when build_all returns, its last sweep built the root and every
\* record of the final registry, all with success, while the registry was
\* already the final registry.
C2_FinalSweepClean == pc = "done" => CleanFinalSweep

\* build_all returned after a sweep that lost a record
C2_Witness ==
    /\ pc = "done"
    /\ Len(registry) >= 2
    /\ \E i \in 1..Len(builds) : FailedRef(builds[i])

\* C3 as stated: the root record is only ever built into destination with
\* is_root set, the other records into destination/root_dir without it.
C3_RootNeverInRootDir ==
    \A i \in 1..Len(builds) :
        InBuildAll(builds[i]) =>
            IF builds[i].name = root_ref
            THEN builds[i].is_root /\ builds[i].target = Destination
            ELSE ~builds[i].is_root /\ builds[i].target = TargetOf(builds[i].remote)

\* C3 amended: a call with is_root set builds the root record into
\* destination; a call of the for loop has is_root unset and builds its
\* record into destination/root_dir; the for loop walks every record of
\* the registry, the root record too.
C3_RootAlsoInRootDir ==
    /\ \A i \in 1..Len(builds) :
          InBuildAll(builds[i]) =>
              IF builds[i].is_root
              THEN builds[i].name = root_ref /\ builds[i].target = Destination
              ELSE /\ builds[i].remote.root_dir # NoDir
                   /\ builds[i].target = [base |-> "destination",
                                          sub |-> builds[i].remote.root_dir]
    /\ pc = "build_refs" => snap = registry
    /\ pc = "done" =>
          \E i \in 1..Len(builds) :
              /\ i > Len(builds) - Len(registry)
              /\ builds[i].name = root_ref
              /\ ~builds[i].is_root
              /\ builds[i].ok

\* build_all returned with the root record not first in a registry of
\* several records
C3_Witness ==
    /\ pc = "done"
    /\ Len(registry) >= 2
    /\ registry[1].name # root_ref

\* C4 as stated: build_all ends with a clean sweep or with no record left,
\* and no handled build failure leaves it.
C4_NoFailureEscapes ==
    /\ pc # "handled_error"
    /\ pc \in {"done", "lookup_error"} => (pc = "done" \/ registry = <<>>)

\* C4 amended: build_all returns only after a sweep in which the root and
\* every remaining record were built without error, and then the registry
\* is not empty; a failed build of the for loop drops its record and its
\* handled error does not leave build_all, and when the record is not the
\* root record the next sweep follows; a failed build of the root into
\* destination is not recovered and leaves build_all as the handled error.
C4_OnlyRootFailureEscapes ==
    /\ pc = "done" => CleanFinalSweep /\ registry # <<>>
    /\ pc = "handled_error" =>
          /\ builds[Len(builds)].is_root
          /\ ~builds[Len(builds)].ok
          /\ builds[Len(builds)].target = Destination
    /\ \A i \in 1..Len(builds) :
          (FailedRef(builds[i]) /\ i = Len(builds)) =>
              /\ pc # "handled_error"
              /\ builds[i].name # root_ref => pc = "build_root"
              /\ NamesOf(registry) = Without(builds[i].versions, builds[i].name)

\* a failed build of the for loop was recovered, and the root build of the
\* next sweep failed
C4_Witness ==
    /\ pc = "handled_error"
    /\ \E i \in 1..Len(builds) : FailedRef(builds[i])

(***************************************************************************)
(* Properties of pre_build followed by build_all                           *)
(***************************************************************************)
Ended == pc \in {"done", "handled_error", "lookup_error",
                 "pre_handled_error", "pre_lookup_error", "pre_process_error"}

BuiltAsRef(n) ==
    \E i \in 1..Len(builds) :
        /\ InBuildAll(builds[i])
        /\ ~builds[i].is_root
        /\ builds[i].name = n
        /\ builds[i].ok

\* C5: when read_config fails for one record, whichever it is, and every
\* build succeeds, the run ends normally with every other record built.
C5_OneBadConfigBlocksNothing ==
    (Ended /\ Cardinality(cfgFailed) = 1 /\ \A i \in 1..Len(builds) : builds[i].ok) =>
        /\ pc = "done"
        /\ \A n \in DOMAIN loaded : BuiltAsRef(n)

PreBuildReturned ==
    /\ pc = "build_root"
    /\ \A i \in 1..Len(builds) : ~InBuildAll(builds[i])

BeforeBuildAll == pc \in {"pre_extract", "pre_export", "pre_root", "pre_root_dir",
                          "pre_config", "pre_handled_error", "pre_lookup_error",
                          "pre_process_error"}

\* C6: a record whose read_config failed is out of the registry from then
\* on and build_all never builds into destination/<its root_dir>; a record
\* whose read_config succeeded is in the registry when pre_build returns,
\* and carries the found_docs and master_doc that read_config returned.
C6_UnreadableNeverBuilt ==
    /\ \A f \in cfgFailed :
          /\ \A i \in 1..Len(registry) : registry[i].name # f.name
          /\ \A i \in 1..Len(builds) :
                InBuildAll(builds[i]) => builds[i].target # TargetOf(f)
    /\ \A i \in 1..Len(registry) :
          IF registry[i].name \in DOMAIN loaded
          THEN /\ registry[i].found_docs = loaded[registry[i].name].found_docs
               /\ registry[i].master_doc = loaded[registry[i].name].master_doc
          ELSE BeforeBuildAll
    /\ PreBuildReturned =>
          \A n \in DOMAIN loaded : \E i \in 1..Len(registry) : registry[i].name = n

\* build_all returned after pre_build had dropped one record and kept two
C6_Witness ==
    /\ pc = "done"
    /\ cfgFailed # {}
    /\ Len(registry) >= 2

\* C7: the root_dir values assigned by pre_build are pairwise distinct and
\* none is a file name of the root build's listing, also after records
\* were removed.
C7_RootDirsDistinct ==
    /\ \A i \in 1..Len(registry) :
          registry[i].root_dir # NoDir =>
              /\ registry[i].root_dir \notin Range(listing)
              /\ \A j \in 1..Len(registry) :
                    j # i => registry[j].root_dir # registry[i].root_dir
    /\ pc \in {"pre_config", "build_root", "build_refs", "done"} =>
          \A i \in 1..Len(registry) : registry[i].root_dir # NoDir

\* the read_config loop is over and has removed a record; two records are
\* left, one of them renamed because of a collision
C7_Witness ==
    /\ pc = "pre_config"
    /\ idx > Len(snap)
    /\ cfgFailed # {}
    /\ listing # <<>>
    /\ Len(registry) >= 2
    /\ \E i \in 1..Len(registry) :
          registry[i].root_dir # RE_INVALID_FILENAME_sub(registry[i].name)

\* the records that are or were in the registry
EverRegistered ==
    Range(registry) \cup cfgFailed \cup {builds[i].remote : i \in 1..Len(builds)}

\* the export loop is over
ExportsDone == pc \notin {"pre_extract", "pre_export", "pre_process_error"}

\* C14: pre_build adds exactly one worktree for each distinct sha of the
\* registry, however many records share it, and every record's sha has its
\* worktree before the throwaway root build, before any configuration is
\* read and before any later build.
C14_OneExportPerSha ==
    /\ \A sha \in Shas :
          /\ exported[sha] <= 1
          /\ exported[sha] = 1 => \E r \in EverRegistered : r.sha = sha
    /\ ExportsDone => \A r \in EverRegistered : exported[r.sha] = 1
    /\ (builds # <<>> \/ loaded # <<>> \/ cfgFailed # {}) =>
          /\ ExportsDone
          /\ \A i \in 1..Len(builds) : exported[builds[i].remote.sha] = 1

\* build_all returned on a registry with two records of one commit and a
\* record of another commit
C14_Witness ==
    /\ pc = "done"
    /\ \E i, j \in 1..Len(registry) : i # j /\ registry[i].sha = registry[j].sha
    /\ Cardinality({sha \in Shas : exported[sha] = 1}) = 2

\* the names that were taken when record i got its root_dir: the files of
\* the root build and the root_dir of every earlier record
TakenBefore(i) == Range(listing) \cup {registry[j].root_dir : j \in 1..(i - 1)}

Sanitized(name, root_dir) ==
    /\ Len(root_dir) >= Len(name)
    /\ \A p \in 1..Len(name) :
          root_dir[p] = IF name[p] \in ValidChars THEN name[p] ELSE "_"

\* C15: a record's root_dir is its name with every character other than a
\* letter, a digit, '.' and '-' replaced by '_', followed by the smallest
\* number of '_' that avoids the root build's files and the earlier
\* root_dirs; a clean name that collides with nothing is kept as it is.
C15_RootDirIsSanitizedName ==
    pc = "pre_root_dir" =>
        \A i \in 1..(idx - 1) :
            LET name == registry[i].name
                root_dir == registry[i].root_dir
            IN /\ Sanitized(name, root_dir)
               /\ \A p \in (Len(name) + 1)..Len(root_dir) : root_dir[p] = "_"
               /\ root_dir \notin TakenBefore(i)
               /\ \A k \in Len(name)..(Len(root_dir) - 1) :
                     SubSeq(root_dir, 1, k) \in TakenBefore(i)
               /\ (Range(name) \subseteq ValidChars /\ name \notin TakenBefore(i)) =>
                     root_dir = name

\* every record has its root_dir; one name was sanitised and then extended,
\* another was clean and kept
C15_Witness ==
    /\ pc = "pre_root_dir"
    /\ idx > Len(registry)
    /\ \E i \in 1..Len(registry) :
          /\ ~(Range(registry[i].name) \subseteq ValidChars)
          /\ Len(registry[i].root_dir) > Len(registry[i].name)
    /\ \E i \in 1..Len(registry) : registry[i].root_dir = registry[i].name

(***************************************************************************)
(* Termination and frame of build_all                                      *)
(***************************************************************************)
RootCalls == {i \in 1..Len(builds) : InBuildAll(builds[i]) /\ builds[i].is_root}

\* every sweep but the first starts with one record less than the sweep
\* before it, so a registry of n records is swept at most n + 1 times
SweepsBounded ==
    /\ \A i, k \in RootCalls :
          (i < k /\ \A j \in RootCalls : ~(i < j /\ j < k)) =>
              /\ Len(builds[k].versions) = Len(builds[i].versions) - 1
              /\ \E j \in (i + 1)..(k - 1) :
                    /\ FailedRef(builds[j])
                    /\ builds[k].versions = Without(builds[i].versions, builds[j].name)
    /\ \A i \in RootCalls :
          (\A j \in RootCalls : i <= j) =>
              /\ Cardinality(RootCalls) <= Len(builds[i].versions) + 1
              /\ Cardinality(RootCalls) + Len(registry) <= Len(builds[i].versions) + 1

\* C17: build_all ends for every registry and every pattern of build
\* outcomes; each new sweep comes after the removal of one record, and a
\* registry of n records sees at most n + 1 root builds.
C17_BuildAllTerminates == []SweepsBounded /\ <>Ended

\* build_all ended after as many root builds as the registry had records
C17_Witness ==
    /\ Ended
    /\ Cardinality(RootCalls) = 3
    /\ \E i \in RootCalls : Len(builds[i].versions) = 3

\* the step removed the record whose build has just failed, and only it
RemovedFailed ==
    /\ Len(builds') = Len(builds) + 1
    /\ FailedRef(builds'[Len(builds')])
    /\ \E k \in 1..Len(registry) :
          /\ registry[k] = builds'[Len(builds')].remote
          /\ Len(registry') = Len(registry) - 1
          /\ \A j \in 1..Len(registry') :
                registry'[j] = IF j < k THEN registry[j] ELSE registry[j + 1]

\* C18: a step of build_all leaves the registry as it is, or removes from
\* it exactly the record whose build has just failed; the other records
\* keep their order and their fields.
C18_OnlyFailedRemoved ==
    [][(pc = "build_root" \/ pc = "build_refs") =>
           (registry' = registry \/ RemovedFailed)]_vars

\* the second of three records failed and was removed
C18_Witness ==
    /\ pc = "build_root"
    /\ Len(builds) > 0
    /\ FailedRef(builds[Len(builds)])
    /\ Len(builds[Len(builds)].versions) = 3
    /\ builds[Len(builds)].versions[2] = builds[Len(builds)].name
    /\ Len(registry) = 2

====
